---------------------------- MODULE Spec2Model ----------------------------
(***************************************************************************)
(* Model of EmailDataProcessor (src/data_processor.py): the historical     *)
(* store of weekly e-mail tables, its persistence in the data directory,   *)
(* and the aggregations computed from it.                                  *)
(*                                                                         *)
(* Representation.                                                         *)
(*  - A Python str is a sequence of one-character strings, so that         *)
(*    replace(), split(), slicing and endswith() are computed, not assumed. *)
(*  - An optional object (None or a value) is <<>> or <<value>>.           *)
(*  - A dict is a sequence of [k, v] entries in insertion order.           *)
(*  - A DataFrame is a sequence of rows; a row is a record of its cells.   *)
(*  - A float is a record [k, n, d]: the rational n/d, NaN or infinity.    *)
(*  - The data directory is three variables: metadata.json, the week_*.pkl *)
(*    files keyed by file name, and automation_mapping.pkl.                *)
(***************************************************************************)
EXTENDS Integers, Sequences, FiniteSets, TLC

VARIABLES
    historical_data,    \* self.historical_data: dict week label -> DataFrame
    mapping_data,       \* self.mapping_data: optional DataFrame
    current_week_data,  \* self.current_week_data: optional DataFrame
    all_weeks_data,     \* self.all_weeks_data: optional DataFrame (cache)
    metadata,           \* self.metadata: weeks, last_updated, automation_map_updated
    metadata_file,      \* <data_dir>/metadata.json: optional metadata record
    week_files,         \* <data_dir>/week_<key>.pkl: function key -> DataFrame
    mapping_file,       \* <data_dir>/automation_mapping.pkl: optional DataFrame
    ingested,           \* history: labels of the calls of load_weekly_data that
                        \* returned normally, in order of first such call
    mapping_replaced,   \* history: whether the last call of
                        \* load_automation_mapping replaced another mapping
    calls,              \* history: the number of calls made so far
    standby             \* the attributes of a second processor instance open on
                        \* the same data directory, None when there is none

vars == <<historical_data, mapping_data, current_week_data, all_weeks_data,
          metadata, metadata_file, week_files, mapping_file, ingested,
          mapping_replaced, calls, standby>>

memory == <<historical_data, mapping_data, current_week_data, all_weeks_data,
            metadata>>

disk == <<metadata_file, week_files, mapping_file>>

history == <<ingested, mapping_replaced>>

-----------------------------------------------------------------------------
(* Bounds *)

\* The number of calls (constructions included) a checked run makes.
MaxCalls == 4

-----------------------------------------------------------------------------
(* Python values *)

PyNone == <<>>
Some(x) == <<x>>
IsNone(o) == o = <<>>
Get(o) == o[1]

\* None where a str is expected (a week label that was never resolved).
NoneLabel == <<"<None>">>

\* A timestamp written by datetime.datetime.now().isoformat(): only whether
\* one was written is kept.
Timestamp == <<"t","s">>

Min(a, b) == IF a < b THEN a ELSE b

\* str.find: the first index at which pat occurs in s, 0 when it does not.
Find(s, pat) ==
    LET hits == {i \in 1..(Len(s) - Len(pat) + 1) :
                    SubSeq(s, i, i + Len(pat) - 1) = pat}
    IN IF hits = {} THEN 0 ELSE CHOOSE i \in hits : \A j \in hits : i <= j

\* pat in s
Contains(s, pat) == Find(s, pat) # 0

\* s.split(pat)[0]
SplitHead(s, pat) ==
    IF Contains(s, pat) THEN SubSeq(s, 1, Find(s, pat) - 1) ELSE s

\* s.split(pat)[1], for s that contains pat
SplitSecond(s, pat) ==
    SplitHead(SubSeq(s, Find(s, pat) + Len(pat), Len(s)), pat)

\* s.replace(old, new) for one-character old and new
Replace(s, old, new) == [i \in 1..Len(s) |-> IF s[i] = old THEN new ELSE s[i]]

\* dict operations
DictHas(d, k) == \E i \in 1..Len(d) : d[i].k = k
DictGet(d, k) == d[CHOOSE i \in 1..Len(d) : d[i].k = k].v
DictSet(d, k, v) ==
    IF DictHas(d, k)
    THEN [i \in 1..Len(d) |-> IF d[i].k = k THEN [k |-> k, v |-> v] ELSE d[i]]
    ELSE Append(d, [k |-> k, v |-> v])
DictKeys(d) == [i \in 1..Len(d) |-> d[i].k]
DictValues(d) == [i \in 1..Len(d) |-> d[i].v]

\* x in list
InList(x, list) == \E i \in 1..Len(list) : list[i] = x

-----------------------------------------------------------------------------
(* Floats *)

Num(n, d) == [k |-> "num", n |-> n, d |-> d]
NaNFloat == [k |-> "nan", n |-> 0, d |-> 1]
InfFloat == [k |-> "inf", n |-> 0, d |-> 1]
Zero == Num(0, 1)

\* a / b on numpy numbers: a division by zero gives inf or NaN, no exception.
NpDiv(a, b) ==
    IF b # 0 THEN Num(a, b) ELSE IF a = 0 THEN NaNFloat ELSE InfFloat

-----------------------------------------------------------------------------
(* Cells of a CSV file and their coercion *)

PercentColumns ==
    {"Open rate", "Click rate", "CTOR", "Bounce rate", "Spam complaint rate",
     "Unsubscribe rate"}

NumericColumns ==
    {"Sent", "Delivered", "Opened", "Clicked", "Bounced", "Marked as spam",
     "Unsubscribed"}

Digits == {"0", "1", "2", "3", "4", "5", "6", "7", "8", "9"}

DigitVal(c) ==
    CASE c = "0" -> 0 [] c = "1" -> 1 [] c = "2" -> 2 [] c = "3" -> 3
      [] c = "4" -> 4 [] c = "5" -> 5 [] c = "6" -> 6 [] c = "7" -> 7
      [] c = "8" -> 8 [] c = "9" -> 9

IsDigits(s) == s # <<>> /\ \A i \in 1..Len(s) : s[i] \in Digits

RECURSIVE ParseNat(_)
ParseNat(s) ==
    IF s = <<>> THEN 0
    ELSE 10 * ParseNat(SubSeq(s, 1, Len(s) - 1)) + DigitVal(s[Len(s)])

\* The missing value (NaN) of a numeric column; counts are never negative.
MissingNum == -1

\* pd.to_numeric(cell, errors='coerce') on a cell of text: a string of digits
\* is its number, anything else is NaN.
ToNumeric(s) == IF IsDigits(s) THEN ParseNat(s) ELSE MissingNum

\* The missing value (NaT) of a date column.
NaT == <<"N", "a", "T">>

\* pd.to_datetime(cell, errors='coerce') on an ISO date YYYY-MM-DD.
ToDatetime(s) ==
    IF /\ Len(s) = 10
       /\ s[5] = "-" /\ s[8] = "-"
       /\ \A i \in {1, 2, 3, 4, 6, 7, 9, 10} : s[i] \in Digits
    THEN s ELSE NaT

\* A cell of a percentage column as pd.read_csv leaves it: a str or a float.
StrCell(s) == [t |-> "str", s |-> s, f |-> Zero]
FloatCell(f) == [t |-> "float", s |-> <<>>, f |-> f]

\* value.strip('%')
RECURSIVE StripPercent(_)
StripPercent(s) ==
    IF s # <<>> /\ s[1] = "%" THEN StripPercent(Tail(s))
    ELSE IF s # <<>> /\ s[Len(s)] = "%"
         THEN StripPercent(SubSeq(s, 1, Len(s) - 1))
         ELSE s

\* Whether float(s) returns: digits with at most one decimal point.
CanParseFloat(s) ==
    LET dot == Find(s, <<".">>)
    IN IF dot = 0 THEN IsDigits(s)
       ELSE IsDigits(SubSeq(s, 1, dot - 1) \o SubSeq(s, dot + 1, Len(s)))

\* float(s), for s that parses
ParseFloat(s) ==
    LET dot == Find(s, <<".">>)
    IN IF dot = 0 THEN Num(ParseNat(s), 1)
       ELSE Num(ParseNat(SubSeq(s, 1, dot - 1) \o SubSeq(s, dot + 1, Len(s))),
                10 ^ (Len(s) - dot))

\* value.endswith('%') on a str
IsPercentStr(v) == v.t = "str" /\ v.s # <<>> /\ v.s[Len(v.s)] = "%"

\* _convert_percent_to_float raises ValueError: float() of the stripped text fails.
ConvertPercentRaises(v) == IsPercentStr(v) /\ ~CanParseFloat(StripPercent(v.s))

\* _convert_percent_to_float(value), when it does not raise
ConvertPercentToFloat(v) ==
    IF IsPercentStr(v)
    THEN LET f == ParseFloat(StripPercent(v.s))
         IN FloatCell(Num(f.n, f.d * 100))
    ELSE v

\* Cell texts that pd.read_csv reads as NaN: the empty cell and 'n/a', two of
\* its default na_values.
NaTexts == {<<>>, <<"n", "/", "a">>}

\* pd.read_csv (line 68) infers one type per column: the column is numeric
\* when every cell that is not NaN parses as a number.
IsNumericColumn(raw, c) ==
    \A i \in 1..Len(raw) : raw[i].pct[c] \in NaTexts \/ CanParseFloat(raw[i].pct[c])

\* The cell of row i in percentage column c as pd.read_csv leaves it: NaN, a
\* float of a numeric column, or the str of its text in a column that holds
\* some text that is no number.
ReadCsvCell(raw, i, c) ==
    LET text == raw[i].pct[c]
    IN IF text \in NaTexts THEN FloatCell(NaNFloat)
       ELSE IF IsNumericColumn(raw, c) THEN FloatCell(ParseFloat(text))
       ELSE StrCell(text)

\* load_weekly_data lines 73-91 raise: some percentage cell does not convert.
CoercionRaises(raw) ==
    \E i \in 1..Len(raw) : \E c \in PercentColumns :
        ConvertPercentRaises(ReadCsvCell(raw, i, c))

\* load_weekly_data lines 68-91 and 109: the coerced table, tagged with the week.
Normalize(raw, week_label) ==
    [i \in 1..Len(raw) |->
        [msg     |-> raw[i].msg,
         subj    |-> raw[i].subj,
         num     |-> [c \in NumericColumns |-> ToNumeric(raw[i].num[c])],
         pct     |-> [c \in PercentColumns |-> ConvertPercentToFloat(ReadCsvCell(raw, i, c))],
         created |-> ToDatetime(raw[i].created),
         Semana  |-> week_label]]

-----------------------------------------------------------------------------
(* Week labels and file names *)

\* The name of a week's file, without "week_" and ".pkl" (lines 126 and 229).
StorageKey(week_label) ==
    Replace(Replace(Replace(week_label, " ", "_"), "-", "_"), "/", "_")

SentMark == <<"s", "e", "n", "t", "_">>
CsvMark == <<".", "c", "s", "v">>

\* ResolveWeekLabel with the two first rules in the other order: a file name
\* of the sent_ convention wins over the label given.
ResolveWeekLabelByName(filename, week_label) ==
    IF Contains(filename, SentMark) /\ Contains(filename, CsvMark)
    THEN LET date_part == SplitHead(SplitSecond(filename, SentMark), CsvMark)
         IN SubSeq(date_part, 1, Min(10, Len(date_part)))
               \o <<" ", "a", " ">> \o SubSeq(date_part, 11, Len(date_part))
    ELSE week_label

\* load_weekly_data lines 94-106: the label the week is stored under. The
\* try block cannot raise (a slice never does), so the except branch with
\* the "Semana <n>, <year>" label is never taken; a file name without
\* 'sent_' or '.csv' leaves week_label None.
ResolveWeekLabel(filename, week_label) ==
    IF week_label # NoneLabel THEN week_label
    ELSE IF Contains(filename, SentMark) /\ Contains(filename, CsvMark)
         THEN LET date_part == SplitHead(SplitSecond(filename, SentMark), CsvMark)
                  start_date == SubSeq(date_part, 1, Min(10, Len(date_part)))
                  end_date == SubSeq(date_part, 11, Len(date_part))
              IN start_date \o <<" ", "a", " ">> \o end_date
         ELSE NoneLabel

-----------------------------------------------------------------------------
(* The inputs the calls are made with *)

\* Explicit week labels. The first two differ only in a character that
\* StorageKey replaces.
LabelSpace == <<"a", " ", "b">>
LabelDash == <<"a", "-", "b">>

\* week_label arguments of load_weekly_data: None or an explicit label
WeekLabelArgs == {NoneLabel, LabelSpace, LabelDash}

\* File names: one that follows the sent_ convention, one that does not
\* (the name of an uploaded temporary file, src/app.py lines 135-140).
SentFileName ==
    <<"s", "e", "n", "t", "_",
      "2", "0", "2", "5", "-", "0", "1", "-", "0", "1",
      "2", "0", "2", "5", "-", "0", "1", "-", "0", "7",
      ".", "c", "s", "v">>
TmpFileName == <<"t", "m", "p", "x", ".", "c", "s", "v">>
FileNames == {SentFileName, TmpFileName}

\* The decimal text of a natural number, as a CSV file holds it.
RECURSIVE ToText(_)
ToText(n) ==
    LET d == CHOOSE c \in Digits : DigitVal(c) = n % 10
    IN IF n < 10 THEN <<d>> ELSE Append(ToText(n \div 10), d)

NotANumber == <<"n", "/", "a">>

\* One row of a weekly export. bounced is given as text, so that a row can
\* hold a cell that is no number; rate is the text of the cell of every
\* percentage column.
RawRow(msg, subj, sent, delivered, opened, clicked, bounced, unsub, rate, created) ==
    [msg |-> msg,
     subj |-> subj,
     num |-> [c \in NumericColumns |->
                CASE c = "Sent" -> ToText(sent)
                  [] c = "Delivered" -> ToText(delivered)
                  [] c = "Opened" -> ToText(opened)
                  [] c = "Clicked" -> ToText(clicked)
                  [] c = "Bounced" -> bounced
                  [] c = "Marked as spam" -> ToText(0)
                  [] c = "Unsubscribed" -> ToText(unsub)],
     pct |-> [c \in PercentColumns |-> rate],
     created |-> created]

SubjectPlain == <<"H", "i">>
SubjectQuestion == <<"N", "e", "w", "?">>

Date1 == <<"2", "0", "2", "5", "-", "0", "1", "-", "0", "3">>

\* The week of the end-to-end scenario: campaigns A and B.
WeekFileAB ==
    << RawRow("A", SubjectPlain, 100, 98, 25, 5, ToText(2), 1,
              <<"2", "5", ".", "5", "%">>, Date1),
       RawRow("B", SubjectQuestion, 150, 148, 30, 8, ToText(2), 0,
              <<"2", "0", "%">>, Date1) >>

\* A week with nothing delivered for A, a campaign C that no mapping lists,
\* and cells that are no number and no date.
WeekFileAC ==
    << RawRow("A", SubjectPlain, 10, 0, 0, 0, ToText(10), 0,
              ToText(0), Date1),
       RawRow("C", SubjectPlain, 50, 40, 0, 3, NotANumber, 1,
              <<"0", ".", "2", "5">>, NotANumber) >>

\* A week with a percentage cell whose text before '%' is no number.
WeekFileBadPercent ==
    << RawRow("B", SubjectPlain, 20, 20, 5, 1, ToText(0), 0,
              <<"x", "%">>, Date1) >>

WeekFiles == {WeekFileAB, WeekFileAC, WeekFileBadPercent}

\* The mapping of the end-to-end scenario.
MappingG1 ==
    << [msg |-> "A", Automacao |-> "G1"], [msg |-> "B", Automacao |-> "G1"] >>

\* Another mapping, which lists campaign A twice.
MappingDup ==
    << [msg |-> "A", Automacao |-> "G2"], [msg |-> "B", Automacao |-> "G1"],
       [msg |-> "A", Automacao |-> "G1"] >>

\* A mapping that puts campaigns B and C into one automation.
MappingBC ==
    << [msg |-> "B", Automacao |-> "G1"], [msg |-> "C", Automacao |-> "G1"] >>

MappingFiles == {MappingG1, MappingDup, MappingBC}

\* min_emails arguments: none, and the default of the two analyses
DefaultMinEmails == 100
MinEmailsArgs == {0, DefaultMinEmails}

-----------------------------------------------------------------------------
(* The store: construction, ingestion, persistence *)

NoMetadata ==
    [weeks |-> <<>>, last_updated |-> PyNone, automation_map_updated |-> PyNone]

\* One more call is made on the processor; a second instance is not touched.
Tick ==
    /\ calls < MaxCalls
    /\ calls' = calls + 1
    /\ UNCHANGED standby

\* __init__ on the data directory as it is (lines 22-43).
Construct ==
    /\ historical_data' = <<>>
    /\ mapping_data' = PyNone
    /\ current_week_data' = PyNone
    /\ all_weeks_data' = PyNone
    /\ metadata' = IF IsNone(metadata_file) THEN NoMetadata ELSE Get(metadata_file)

\* The first processor, on an empty data directory.
Init ==
    /\ historical_data = <<>>
    /\ mapping_data = PyNone
    /\ current_week_data = PyNone
    /\ all_weeks_data = PyNone
    /\ metadata = NoMetadata
    /\ metadata_file = PyNone
    /\ week_files = <<>>
    /\ mapping_file = PyNone
    /\ ingested = <<>>
    /\ mapping_replaced = FALSE
    /\ calls = 0
    /\ standby = PyNone

\* RegisterWeek without the membership test of line 116: every call appends.
RegisterWeekAlways(weeks, week_label) == Append(weeks, week_label)

\* lines 116-117: register the label in the ordered list if it is new
RegisterWeek(weeks, week_label) ==
    IF InList(week_label, weeks) THEN weeks ELSE Append(weeks, week_label)

\* WriteFile without line 127: the directory keeps the files it had.
WriteFileNever(files, key, value) == files

\* df.to_pickle(path): the file named by key holds the frame
WriteFile(files, key, value) ==
    [k \in DOMAIN files \cup {key} |-> IF k = key THEN value ELSE files[k]]

\* The history of ingested labels after one more call returned normally.
Ingested(log, week_label) ==
    IF InList(week_label, log) THEN log ELSE Append(log, week_label)

\* The exception load_weekly_data ends with, "none" when it returns:
\* line 79 raises ValueError before anything is stored, line 126 raises
\* AttributeError (None has no replace()) after lines 109-123 ran.
LoadWeeklyDataRaises(raw, filename, week_label) ==
    IF CoercionRaises(raw) THEN "ValueError"
    ELSE IF ResolveWeekLabel(filename, week_label) = NoneLabel
         THEN "AttributeError"
         ELSE "none"

\* load_weekly_data(file_path, week_label): raw is the content of the file,
\* filename its base name.
LoadWeeklyData(raw, filename, week_label) ==
    /\ Tick
    /\ IF CoercionRaises(raw)
       THEN UNCHANGED <<memory, disk, history>>
       ELSE LET label == ResolveWeekLabel(filename, week_label)
                df == Normalize(raw, label)
                meta == [metadata EXCEPT !.weeks = RegisterWeek(@, label),
                                         !.last_updated = Some(Timestamp)]
            IN /\ current_week_data' = Some(df)
               /\ historical_data' = DictSet(historical_data, label, df)
               /\ metadata' = meta
               /\ metadata_file' = Some(meta)
               /\ UNCHANGED <<mapping_data, all_weeks_data, mapping_file,
                              mapping_replaced>>
               /\ IF label = NoneLabel
                  THEN UNCHANGED <<week_files, ingested>>
                  ELSE /\ week_files' = WriteFile(week_files, StorageKey(label), df)
                       /\ ingested' = Ingested(ingested, label)

\* LoadAutomationMapping that keeps the entries of the mapping it finds and
\* adds those of the file, in memory and in the pickle.
LoadAutomationMappingMerge(raw) ==
    LET meta == [metadata EXCEPT !.automation_map_updated = Some(Timestamp)]
        merged == (IF IsNone(mapping_file) THEN <<>> ELSE Get(mapping_file)) \o raw
    IN /\ Tick
       /\ mapping_data' = Some(merged)
       /\ metadata' = meta
       /\ metadata_file' = Some(meta)
       /\ mapping_file' = Some(merged)
       /\ mapping_replaced' = (~IsNone(mapping_file) /\ Get(mapping_file) # raw)
       /\ UNCHANGED <<historical_data, current_week_data, all_weeks_data,
                      week_files, ingested>>

\* load_automation_mapping(file_path): raw is the content of the file.
LoadAutomationMapping(raw) ==
    LET meta == [metadata EXCEPT !.automation_map_updated = Some(Timestamp)]
    IN /\ Tick
       /\ mapping_data' = Some(raw)
       /\ metadata' = meta
       /\ metadata_file' = Some(meta)
       /\ mapping_file' = Some(raw)
       /\ mapping_replaced' = (~IsNone(mapping_file) /\ Get(mapping_file) # raw)
       /\ UNCHANGED <<historical_data, current_week_data, all_weeks_data,
                      week_files, ingested>>

\* pd.concat(frames, ignore_index=True): the rows of the frames, in order
RECURSIVE Concat(_)
Concat(frames) ==
    IF frames = <<>> THEN <<>> ELSE Head(frames) \o Concat(Tail(frames))

\* CombinedFrame of the most recent week alone, instead of every value of
\* the dict.
CombinedFrameLatest(hist) ==
    IF hist = <<>> THEN <<>> ELSE hist[Len(hist)].v

\* lines 194-195: the frame combine_all_weeks builds from a non-empty store
CombinedFrame(hist) == Concat(DictValues(hist))

\* line 191: combine_all_weeks raises ValueError
CombineAllWeeksRaises == historical_data = <<>>

\* CombineAllWeeks that also clears the ingestion timestamp of the metadata
\* and writes the metadata file.
CombineAllWeeksResetting ==
    /\ Tick
    /\ IF CombineAllWeeksRaises
       THEN UNCHANGED <<memory, disk, history>>
       ELSE /\ all_weeks_data' = Some(CombinedFrame(historical_data))
            /\ metadata' = [metadata EXCEPT !.last_updated = PyNone]
            /\ metadata_file' = Some(metadata')
            /\ UNCHANGED <<historical_data, mapping_data, current_week_data,
                           week_files, mapping_file, history>>

\* combine_all_weeks()
CombineAllWeeks ==
    /\ Tick
    /\ IF CombineAllWeeksRaises
       THEN UNCHANGED <<memory, disk, history>>
       ELSE /\ all_weeks_data' = Some(CombinedFrame(historical_data))
            /\ UNCHANGED <<historical_data, mapping_data, current_week_data,
                           metadata, disk, history>>

\* lines 228-233: the loop over metadata['weeks'], from the label list still
\* to visit. raised: a label that is None has no replace() (AttributeError),
\* which ends the call with the weeks before it loaded.
RECURSIVE LoadWeeks(_, _, _, _)
LoadWeeks(hist, weeks, files, success) ==
    IF weeks = <<>>
    THEN [hist |-> hist, success |-> success, raised |-> FALSE]
    ELSE LET week == Head(weeks)
         IN IF week = NoneLabel
            THEN [hist |-> hist, success |-> success, raised |-> TRUE]
            ELSE IF StorageKey(week) \in DOMAIN files
                 THEN LoadWeeks(DictSet(hist, week, files[StorageKey(week)]),
                                Tail(weeks), files, success)
                 ELSE LoadWeeks(hist, Tail(weeks), files, FALSE)

\* lines 218-233 of load_saved_data on the processor and directory as they are
LoadSaved ==
    LoadWeeks(historical_data, metadata.weeks, week_files, ~IsNone(mapping_file))

\* load_saved_data()
LoadSavedData ==
    LET loaded == LoadSaved
        latest_week == metadata.weeks[Len(metadata.weeks)]
    IN /\ Tick
       /\ mapping_data' = IF IsNone(mapping_file) THEN mapping_data ELSE mapping_file
       /\ historical_data' = loaded.hist
       /\ UNCHANGED <<metadata, disk, history>>
       /\ IF loaded.raised
          THEN UNCHANGED <<current_week_data, all_weeks_data>>
          ELSE /\ current_week_data' =
                    IF metadata.weeks = <<>> THEN current_week_data
                    ELSE IF DictHas(loaded.hist, latest_week)
                         THEN Some(DictGet(loaded.hist, latest_week))
                         ELSE PyNone
               /\ all_weeks_data' =
                    IF loaded.hist = <<>> THEN all_weeks_data
                    ELSE Some(CombinedFrame(loaded.hist))

-----------------------------------------------------------------------------
(* The aggregator *)

\* The Automacao of a row that no mapping entry matches (NaN after the merge).
NullGroup == "<NaN>"

\* merge_with_mapping(df) raises ValueError (lines 173-177); df is the
\* optional frame passed, None standing for the current week.
MergeWithMappingRaises(df) ==
    \/ IsNone(df) /\ IsNone(current_week_data)
    \/ IsNone(mapping_data)

\* JoinRow of pd.merge(how='inner'): a row without a mapping entry is left out.
JoinRowInner(row, mapping) ==
    LET hits == SelectSeq(mapping, LAMBDA e : e.msg = row.msg)
    IN [i \in 1..Len(hits) |-> [row |-> row, Automacao |-> hits[i].Automacao]]

\* The rows pd.merge(how='left') makes of one left row: one per mapping
\* entry with its Message name, in the mapping's order, or one with a NaN
\* Automacao when there is none.
JoinRow(row, mapping) ==
    LET hits == SelectSeq(mapping, LAMBDA e : e.msg = row.msg)
    IN IF hits = <<>> THEN << [row |-> row, Automacao |-> NullGroup] >>
       ELSE [i \in 1..Len(hits) |-> [row |-> row, Automacao |-> hits[i].Automacao]]

\* line 180: pd.merge(df, mapping, on='Message name', how='left')
RECURSIVE LeftMerge(_, _)
LeftMerge(df, mapping) ==
    IF df = <<>> THEN <<>>
    ELSE JoinRow(Head(df), mapping) \o LeftMerge(Tail(df), mapping)

\* merge_with_mapping(df), when it does not raise
MergeWithMapping(df) ==
    LeftMerge(IF IsNone(df) THEN Get(current_week_data) ELSE Get(df),
              Get(mapping_data))

\* Series.sum() of a numeric column: missing values are skipped.
RECURSIVE SumCol(_, _)
SumCol(rows, col) ==
    IF rows = <<>> THEN 0
    ELSE (IF Head(rows).num[col] = MissingNum THEN 0 ELSE Head(rows).num[col])
         + SumCol(Tail(rows), col)

\* GroupMetrics with Sent as the denominator of every rate but CTOR.
GroupMetricsBySent(rows) ==
    LET sent == SumCol(rows, "Sent")
        delivered == SumCol(rows, "Delivered")
        opened == SumCol(rows, "Opened")
        clicked == SumCol(rows, "Clicked")
        bounced == SumCol(rows, "Bounced")
        unsubscribed == SumCol(rows, "Unsubscribed")
    IN [Sent |-> sent, Delivered |-> delivered, Opened |-> opened,
        Clicked |-> clicked, Bounced |-> bounced, Unsubscribed |-> unsubscribed,
        DeliveryRate |-> NpDiv(delivered, sent),
        OpenRate |-> NpDiv(opened, sent),
        ClickRate |-> NpDiv(clicked, sent),
        CTOR |-> NpDiv(clicked, opened),
        BounceRate |-> NpDiv(bounced, sent),
        UnsubscribeRate |-> NpDiv(unsubscribed, sent)]

\* The six sums of a group and the six rates computed from them (lines
\* 333-348, 372-387, 405-420): a rate is a numpy division.
GroupMetrics(rows) ==
    LET sent == SumCol(rows, "Sent")
        delivered == SumCol(rows, "Delivered")
        opened == SumCol(rows, "Opened")
        clicked == SumCol(rows, "Clicked")
        bounced == SumCol(rows, "Bounced")
        unsubscribed == SumCol(rows, "Unsubscribed")
    IN [Sent |-> sent, Delivered |-> delivered, Opened |-> opened,
        Clicked |-> clicked, Bounced |-> bounced, Unsubscribed |-> unsubscribed,
        DeliveryRate |-> NpDiv(delivered, sent),
        OpenRate |-> NpDiv(opened, delivered),
        ClickRate |-> NpDiv(clicked, delivered),
        CTOR |-> NpDiv(clicked, opened),
        BounceRate |-> NpDiv(bounced, sent),
        UnsubscribeRate |-> NpDiv(unsubscribed, delivered)]

\* lines 323-324, 362-363, 401-402: self.all_weeks_data once the combined
\* frame was asked for; it is built only when the cache holds none.
CachedFrame ==
    IF ~IsNone(all_weeks_data) THEN all_weeks_data
    ELSE IF CombineAllWeeksRaises THEN PyNone
         ELSE Some(CombinedFrame(historical_data))

\* get_automation_performance and get_weekly_automation_performance raise
\* ValueError: no week to combine (line 324), or no mapping (line 327).
AutomationPerformanceRaises == IsNone(CachedFrame) \/ IsNone(mapping_data)

\* The rows of a merged frame whose Automacao is g
RowsOfGroup(merged, g) ==
    LET hits == SelectSeq(merged, LAMBDA m : m.Automacao = g)
    IN [i \in 1..Len(hits) |-> hits[i].row]

\* groupby('Automacao'): the group keys; a NaN key makes no group.
AutomationGroups(merged) ==
    {merged[i].Automacao : i \in 1..Len(merged)} \ {NullGroup}

\* get_automation_performance(min_emails), when it does not raise: the
\* frame as a function from Automacao to the row of that group.
AutomationPerformance(min_emails) ==
    LET merged == MergeWithMapping(CachedFrame)
        kept == {g \in AutomationGroups(merged) :
                    SumCol(RowsOfGroup(merged, g), "Sent") >= min_emails}
    IN [g \in kept |-> GroupMetrics(RowsOfGroup(merged, g))]

\* groupby(['Automacao', 'Semana']): the group keys; a NaN Automacao or a
\* None Semana makes no group.
WeeklyGroups(merged) ==
    {k \in {<<merged[i].Automacao, merged[i].row.Semana>> : i \in 1..Len(merged)} :
        k[1] # NullGroup /\ k[2] # NoneLabel}

\* The rows of a merged frame in the group k = <<Automacao, Semana>>
RowsOfWeeklyGroup(merged, k) ==
    LET hits == SelectSeq(merged, LAMBDA m :
                    m.Automacao = k[1] /\ m.row.Semana = k[2])
    IN [i \in 1..Len(hits) |-> hits[i].row]

\* get_weekly_automation_performance(), when it does not raise: a function
\* from <<Automacao, Semana>> to the row of that group.
WeeklyAutomationPerformance ==
    LET merged == MergeWithMapping(CachedFrame)
    IN [k \in WeeklyGroups(merged) |-> GroupMetrics(RowsOfWeeklyGroup(merged, k))]

\* analyze_subject_performance raises ValueError: no week to combine.
SubjectPerformanceRaises == IsNone(CachedFrame)

\* lines 426-429: the columns derived from the subject text
SubjectColumns(subject) ==
    [SubjectLength |-> Len(subject),
     HasPersonalization |->
        \/ Contains(subject, <<"{", "{", "C", "O", "N", "T", "A", "C", "T">>)
        \/ Contains(subject, <<"{", "{", "c", "o", "n", "t", "a", "c", "t">>),
     HasQuestion |-> Contains(subject, <<"?">>),
     HasNumber |-> \E i \in 1..Len(subject) : subject[i] \in Digits]

\* The rows of a frame with the given Subject
RowsOfSubject(frame, subject) == SelectSeq(frame, LAMBDA r : r.subj = subject)

\* analyze_subject_performance(min_emails), when it does not raise: a
\* function from Subject to the row of that group.
SubjectPerformance(min_emails) ==
    LET frame == Get(CachedFrame)
        kept == {subject \in {frame[i].subj : i \in 1..Len(frame)} :
                    SumCol(RowsOfSubject(frame, subject), "Sent") >= min_emails}
    IN [subject \in kept |->
            [m |-> GroupMetrics(RowsOfSubject(frame, subject)),
             s |-> SubjectColumns(subject)]]

\* lines 256-257: the label get_week_summary looks up
SummaryLabel(week_label) ==
    IF week_label = NoneLabel /\ ~IsNone(current_week_data)
    THEN Get(current_week_data)[1].Semana
    ELSE week_label

\* get_week_summary(week_label) raises ValueError (lines 259-260)
WeekSummaryRaises(week_label) ==
    \/ SummaryLabel(week_label) = NoneLabel
    \/ ~DictHas(historical_data, SummaryLabel(week_label))

\* a / b if b > 0 else 0
GuardedDiv(a, b) == IF b > 0 THEN Num(a, b) ELSE Zero

\* get_week_summary(week_label), when it does not raise
WeekSummary(week_label) ==
    LET df == DictGet(historical_data, SummaryLabel(week_label))
        total_sent == SumCol(df, "Sent")
        total_delivered == SumCol(df, "Delivered")
        total_opened == SumCol(df, "Opened")
        total_clicked == SumCol(df, "Clicked")
        total_bounced == SumCol(df, "Bounced")
        total_unsubscribed == SumCol(df, "Unsubscribed")
    IN [semana |-> SummaryLabel(week_label),
        total_sent |-> total_sent,
        total_delivered |-> total_delivered,
        total_opened |-> total_opened,
        total_clicked |-> total_clicked,
        total_bounced |-> total_bounced,
        total_unsubscribed |-> total_unsubscribed,
        delivery_rate |-> GuardedDiv(total_delivered, total_sent),
        open_rate |-> GuardedDiv(total_opened, total_delivered),
        click_rate |-> GuardedDiv(total_clicked, total_delivered),
        bounce_rate |-> GuardedDiv(total_bounced, total_sent),
        unsubscribe_rate |-> GuardedDiv(total_unsubscribed, total_delivered),
        ctor |-> GuardedDiv(total_clicked, total_opened)]

\* get_all_weeks_summary() raises: some listed week has no summary
AllWeeksSummaryRaises ==
    \E i \in 1..Len(metadata.weeks) : WeekSummaryRaises(metadata.weeks[i])

\* get_all_weeks_summary(), when it does not raise
AllWeeksSummary ==
    [i \in 1..Len(metadata.weeks) |-> WeekSummary(metadata.weeks[i])]

\* Calls that read the store and change nothing.
MergeWithMappingCall == Tick /\ UNCHANGED <<memory, disk, history>>

GetWeekSummary(week_label) == Tick /\ UNCHANGED <<memory, disk, history>>

GetAllWeeksSummary == Tick /\ UNCHANGED <<memory, disk, history>>

\* A call that asks for the combined frame first: the cache is filled when
\* it holds none, also when the call then raises for the missing mapping.
ReadThroughCache ==
    /\ Tick
    /\ all_weeks_data' = CachedFrame
    /\ UNCHANGED <<historical_data, mapping_data, current_week_data, metadata,
                   disk, history>>

GetAutomationPerformance(min_emails) == ReadThroughCache

GetWeeklyAutomationPerformance == ReadThroughCache

AnalyzeSubjectPerformance(min_emails) == ReadThroughCache

-----------------------------------------------------------------------------
(* The trend: week-over-week changes *)

\* The printable ASCII characters in code-point order, from the space (32).
\* The places of the double quote (34), the backslash (92) and the backtick
\* (96) hold their names.
Ascii ==
    <<" ", "!", "quote", "#", "$", "%", "&", "'", "(", ")", "*", "+", ",", "-", ".", "/",
      "0", "1", "2", "3", "4", "5", "6", "7", "8", "9",
      ":", ";", "<", "=", ">", "?", "@",
      "A", "B", "C", "D", "E", "F", "G", "H", "I", "J", "K", "L", "M", "N", "O", "P", "Q", "R", "S", "T", "U", "V", "W", "X", "Y", "Z",
      "[", "backslash", "]", "^", "_", "backtick",
      "a", "b", "c", "d", "e", "f", "g", "h", "i", "j", "k", "l", "m", "n", "o", "p", "q", "r", "s", "t", "u", "v", "w", "x", "y", "z",
      "{", "|", "}", "~">>

\* ord(c)
Ord(c) == 31 + (CHOOSE i \in 1..Len(Ascii) : Ascii[i] = c)

\* a < b on str: the order sort_values gives a column of labels
RECURSIVE StrLess(_, _)
StrLess(a, b) ==
    IF b = <<>> THEN FALSE
    ELSE IF a = <<>> THEN TRUE
    ELSE IF a[1] = b[1] THEN StrLess(Tail(a), Tail(b))
    ELSE Ord(a[1]) < Ord(b[1])

\* line 443: the labels of one automation in the order of sort_values
RECURSIVE SortLabels(_)
SortLabels(labels) ==
    IF labels = {} THEN <<>>
    ELSE LET least == CHOOSE x \in labels : \A y \in labels \ {x} : StrLess(x, y)
         IN <<least>> \o SortLabels(labels \ {least})

\* x / y on floats (rates are never negative, so no infinity is negative)
FloatDiv(x, y) ==
    IF x.k = "nan" \/ y.k = "nan" THEN NaNFloat
    ELSE IF y.k = "inf" THEN (IF x.k = "inf" THEN NaNFloat ELSE Zero)
    ELSE IF x.k = "inf" THEN InfFloat
    ELSE IF y.n = 0 THEN (IF x.n = 0 THEN NaNFloat ELSE InfFloat)
    ELSE Num(x.n * y.d, x.d * y.n)

\* (x - 1) * 100 on floats
MinusOneTimes100(x) ==
    IF x.k = "num" THEN Num(100 * (x.n - x.d), x.d) ELSE x

\* Series.ffill(): a NaN takes the last value before it that is not NaN
FillForward(rates) ==
    [i \in 1..Len(rates) |->
        LET valid == {j \in 1..i : rates[j].k # "nan"}
        IN IF valid = {} THEN rates[i]
           ELSE rates[CHOOSE j \in valid : \A l \in valid : l <= j]]

\* pct_change() * 100 of the rates of one automation (lines 446-448). pad:
\* whether the installed pandas fills NaN forward first (fill_method='pad',
\* the default before pandas 3) or not.
PctChange(rates, pad) ==
    LET data == IF pad THEN FillForward(rates) ELSE rates
    IN [i \in 1..Len(rates) |->
           IF i = 1 THEN NaNFloat
           ELSE MinusOneTimes100(FloatDiv(data[i], data[i - 1]))]

\* get_week_over_week_changes raises: get_weekly_automation_performance does
WeekOverWeekChangesRaises == AutomationPerformanceRaises

\* get_week_over_week_changes(), when it does not raise: a function from
\* Automacao to the rows of that automation, in the order of the output.
WeekOverWeekChanges(pad) ==
    LET weekly == WeeklyAutomationPerformance
        WeeksOf(g) == SortLabels({k[2] : k \in {x \in DOMAIN weekly : x[1] = g}})
        RatesOf(g, rate) ==
            [i \in 1..Len(WeeksOf(g)) |-> weekly[<<g, WeeksOf(g)[i]>>][rate]]
    IN [g \in {k[1] : k \in DOMAIN weekly} |->
           [i \in 1..Len(WeeksOf(g)) |->
               [Semana |-> WeeksOf(g)[i],
                m |-> weekly[<<g, WeeksOf(g)[i]>>],
                OpenRateChange |-> PctChange(RatesOf(g, "OpenRate"), pad)[i],
                ClickRateChange |-> PctChange(RatesOf(g, "ClickRate"), pad)[i],
                CTORChange |-> PctChange(RatesOf(g, "CTOR"), pad)[i]]]]

GetWeekOverWeekChanges == ReadThroughCache

\* The process ends and a new one constructs a processor on the same directory.
Restart ==
    /\ Tick
    /\ Construct
    /\ UNCHANGED <<disk, history>>

Next ==
    \/ \E raw \in WeekFiles, filename \in FileNames, week_label \in WeekLabelArgs :
          LoadWeeklyData(raw, filename, week_label)
    \/ \E raw \in MappingFiles : LoadAutomationMapping(raw)
    \/ LoadSavedData
    \/ CombineAllWeeks
    \/ MergeWithMappingCall
    \/ \E week_label \in WeekLabelArgs : GetWeekSummary(week_label)
    \/ GetAllWeeksSummary
    \/ \E min_emails \in MinEmailsArgs : GetAutomationPerformance(min_emails)
    \/ GetWeeklyAutomationPerformance
    \/ \E min_emails \in MinEmailsArgs : AnalyzeSubjectPerformance(min_emails)
    \/ GetWeekOverWeekChanges
    \/ Restart

Spec == Init /\ [][Next]_vars

-----------------------------------------------------------------------------
(* Ingestion over the cell contents of a file *)

\* The input forms of a rate: a string ending in '%' or a plain fraction
RateForms ==
    {<<"2", "0", "%">>, <<"1", "0", "0", "%">>, <<"0", ".", "2", "5">>, <<"0">>}

\* Cell contents that are no rate: text before '%' that is no number, text
\* that is no number, and the missing cell
Junk == <<"x">>
NoRateTexts == {<<"x", "%">>, Junk, NotANumber}

RateTexts == RateForms \cup NoRateTexts

\* A file of two rows with the given texts in the percentage columns of each;
\* junk: whether the Bounced and Created on cells of the first row hold text
\* that is no number and no date.
CellFile(rate1, rate2, junk) ==
    << RawRow("A", SubjectPlain, 100, 98, 25, 5,
              IF junk THEN Junk ELSE ToText(2), 1, rate1,
              IF junk THEN Junk ELSE Date1),
       RawRow("B", SubjectQuestion, 150, 148, 30, 8, ToText(2), 0, rate2, Date1) >>

CellFiles ==
    {CellFile(rate1, rate2, junk) :
        rate1 \in RateTexts, rate2 \in RateTexts, junk \in BOOLEAN}

\* The files whose rate cells all hold a rate, in either form
RateFiles ==
    {CellFile(rate1, rate2, FALSE) : rate1 \in RateForms, rate2 \in RateForms}

\* Ingestions of such files, one after the other, under one label.
NextCells == \E raw \in CellFiles : LoadWeeklyData(raw, TmpFileName, LabelSpace)

SpecCells == Init /\ [][NextCells]_vars

-----------------------------------------------------------------------------
(* A processor on the data directory an earlier run left *)

\* metadata.json after these calls of an earlier run: the week 'a b' was
\* ingested, an ingestion without label of a file not named sent_... ended
\* in the AttributeError of line 126 after it had listed None (lines 117 and
\* 123), and a mapping was loaded.
SavedMetadata ==
    [weeks |-> <<LabelSpace, NoneLabel>>,
     last_updated |-> Some(Timestamp),
     automation_map_updated |-> Some(Timestamp)]

\* A new processor on that directory (lines 22-37).
InitSaved ==
    /\ historical_data = <<>>
    /\ mapping_data = PyNone
    /\ current_week_data = PyNone
    /\ all_weeks_data = PyNone
    /\ metadata = SavedMetadata
    /\ metadata_file = Some(SavedMetadata)
    /\ week_files = WriteFile(<<>>, StorageKey(LabelSpace),
                              Normalize(WeekFileAB, LabelSpace))
    /\ mapping_file = Some(MappingG1)
    /\ ingested = <<LabelSpace>>
    /\ mapping_replaced = FALSE
    /\ calls = 0
    /\ standby = PyNone

NextSaved ==
    \/ LoadSavedData
    \/ \E raw \in {WeekFileAB, WeekFileAC} :
          LoadWeeklyData(raw, SentFileName, NoneLabel)
    \/ \E raw \in {MappingG1, MappingBC} : LoadAutomationMapping(raw)
    \/ CombineAllWeeks
    \/ MergeWithMappingCall
    \/ GetAutomationPerformance(0)
    \/ GetWeeklyAutomationPerformance
    \/ GetWeekOverWeekChanges
    \/ Restart

SpecSaved == InitSaved /\ [][NextSaved]_vars

-----------------------------------------------------------------------------
(* Two processors on one data directory *)

\* The attributes of the processor the calls go to
Attributes ==
    [historical_data |-> historical_data,
     mapping_data |-> mapping_data,
     current_week_data |-> current_week_data,
     all_weeks_data |-> all_weeks_data,
     metadata |-> metadata]

\* A second instance is constructed on the directory (lines 22-43) while the
\* first stays open; the calls go to the new one.
OpenSecond ==
    /\ calls < MaxCalls
    /\ calls' = calls + 1
    /\ IsNone(standby)
    /\ standby' = Some(Attributes)
    /\ Construct
    /\ UNCHANGED <<disk, history>>

\* The caller turns to the other instance, between two calls.
Switch ==
    /\ ~IsNone(standby)
    /\ standby' = Some(Attributes)
    /\ historical_data' = Get(standby).historical_data
    /\ mapping_data' = Get(standby).mapping_data
    /\ current_week_data' = Get(standby).current_week_data
    /\ all_weeks_data' = Get(standby).all_weeks_data
    /\ metadata' = Get(standby).metadata
    /\ UNCHANGED <<disk, history, calls>>

\* Ingestions under two labels with different storage keys, by either
\* instance, one call after the other.
NextTwo ==
    \/ \E raw \in {WeekFileAB, WeekFileAC} :
          \/ LoadWeeklyData(raw, TmpFileName, LabelSpace)
          \/ LoadWeeklyData(raw, SentFileName, NoneLabel)
    \/ OpenSecond
    \/ Switch
    \/ LoadSavedData
    \/ Restart

SpecTwo == Init /\ [][NextTwo]_vars

-----------------------------------------------------------------------------
(* Properties of the store *)

\* The calls of load_weekly_data that return normally, each with the label
\* it resolves and the table it normalizes.
ReturningCalls ==
    {[raw |-> a[1], filename |-> a[2], week_label |-> a[3],
      label |-> ResolveWeekLabel(a[2], a[3]),
      df |-> Normalize(a[1], ResolveWeekLabel(a[2], a[3]))] :
        a \in {x \in WeekFiles \X FileNames \X WeekLabelArgs :
                  LoadWeeklyDataRaises(x[1], x[2], x[3]) = "none"}}

\* A step is the returning call c of load_weekly_data.
IngestReturns(c) ==
    /\ current_week_data' = Some(c.df)
    /\ LoadWeeklyData(c.raw, c.filename, c.week_label)

\* C1, for one call: with a label the store already holds, the table under
\* the label is the normalized file in memory and in the week's file, and
\* every other week keeps its table in memory and its file in the directory.
LastWriteWins(c) ==
    (DictHas(historical_data, c.label) /\ IngestReturns(c))
    => /\ DictGet(historical_data', c.label) = c.df
       /\ StorageKey(c.label) \in DOMAIN week_files'
       /\ week_files'[StorageKey(c.label)] = c.df
       /\ \A i \in 1..Len(historical_data) :
             LET other == historical_data[i].k
             IN other # c.label =>
                  /\ DictHas(historical_data', other)
                  /\ DictGet(historical_data', other) = historical_data[i].v
                  /\ (other # NoneLabel /\ StorageKey(other) \in DOMAIN week_files)
                        => week_files'[StorageKey(other)] = week_files[StorageKey(other)]

\* C1: re-ingesting a known week label is last-write-wins: the table stored
\* under the label, in memory and in the persisted week file, is exactly the
\* normalized content of the new file, and no other week's stored table
\* (in memory or persisted) is changed by the call.
C1_LastWriteWins == [][\A c \in ReturningCalls : LastWriteWins(c)]_vars

NonNullWeeks(weeks) == SelectSeq(weeks, LAMBDA w : w # NoneLabel)

NoDuplicates(list) == \A i, j \in 1..Len(list) : list[i] = list[j] => i = j

\* C2: the week-label list holds each ingested label exactly once, in the
\* order of first ingestion; re-ingesting a known label neither duplicates
\* nor moves it, and no operation removes a label (ingested only grows).
C2_WeekLabelList ==
    /\ NoDuplicates(metadata.weeks)
    /\ NonNullWeeks(metadata.weeks) = ingested

\* C2: two labels were ingested and the first was ingested again after the
\* second (the file both share was last written with the first one's tag).
C2_Reingested ==
    /\ ingested = <<LabelSpace, LabelDash>>
    /\ metadata.weeks = ingested
    /\ week_files[StorageKey(LabelSpace)][1].Semana = LabelSpace

\* __init__ of a fresh processor on the data directory (lines 32-43), then
\* its load_saved_data() (lines 218-233).
FreshLoad ==
    LoadWeeks(<<>>,
              (IF IsNone(metadata_file) THEN NoMetadata ELSE Get(metadata_file)).weeks,
              week_files, ~IsNone(mapping_file))

\* C3: round trip through persistence: when the processor holds the weeks of
\* the load_weekly_data calls that returned, a fresh processor on the same
\* directory that calls load_saved_data has the identical combined table
\* (same weeks, same rows per week, same week order).
C3_RoundTrip ==
    (/\ ingested # <<>>
     /\ metadata.weeks = ingested
     /\ DictKeys(historical_data) = ingested)
    => /\ ~FreshLoad.raised
       /\ CombinedFrame(FreshLoad.hist) = CombinedFrame(historical_data)

\* C4, for one call: on a normal return the week's file holds the table and
\* the metadata file lists the label.
PersistsBoth(c) ==
    IngestReturns(c)
    => /\ StorageKey(c.label) \in DOMAIN week_files'
       /\ week_files'[StorageKey(c.label)] = c.df
       /\ ~IsNone(metadata_file')
       /\ InList(c.label, Get(metadata_file').weeks)

\* C4: whenever load_weekly_data returns normally, both the week's table
\* file and a metadata record listing the week's label have been written
\* to the data directory.
C4_PersistsTableAndMetadata == [][\A c \in ReturningCalls : PersistsBoth(c)]_vars

\* C4: two calls returned normally; each label has its file and is listed
\* in the metadata file.
C4_Persisted ==
    /\ Len(ingested) = 2
    /\ ~IsNone(metadata_file)
    /\ \A i \in 1..Len(ingested) :
          /\ StorageKey(ingested[i]) \in DOMAIN week_files
          /\ InList(ingested[i], Get(metadata_file).weeks)

\* How often a row occurs in a frame, and in the stored weekly tables.
Occurrences(row, df) == Cardinality({i \in 1..Len(df) : df[i] = row})

StoredCells ==
    UNION {{<<w, i>> : i \in 1..Len(historical_data[w].v)} :
              w \in 1..Len(historical_data)}

StoredOccurrences(row) ==
    Cardinality({c \in StoredCells : historical_data[c[1]].v[c[2]] = row})

\* C5: combine_all_weeks raises if and only if the store holds no week;
\* otherwise its result holds exactly the rows of every stored weekly
\* table, each as often as the tables hold it and with its week tag, and
\* no row that is in no stored table (none of an overwritten version).
C5_CombineAllWeeks ==
    /\ CombineAllWeeksRaises <=> (DictKeys(historical_data) = <<>>)
    /\ ~CombineAllWeeksRaises =>
          LET combined == CombinedFrame(historical_data)
          IN /\ \A c \in StoredCells :
                   LET row == historical_data[c[1]].v[c[2]]
                   IN Occurrences(row, combined) = StoredOccurrences(row)
             /\ \A j \in 1..Len(combined) : StoredOccurrences(combined[j]) > 0

\* C5: two weeks are stored, and the combined frame built earlier holds a
\* row of a table that was overwritten since.
C5_CombinedAfterOverwrite ==
    /\ Len(historical_data) = 2
    /\ ~IsNone(all_weeks_data)
    /\ \E j \in 1..Len(Get(all_weeks_data)) :
          /\ DictHas(historical_data, Get(all_weeks_data)[j].Semana)
          /\ StoredOccurrences(Get(all_weeks_data)[j]) = 0

\* Whether the file of a listed week exists
ArtifactFound(week) == week # NoneLabel /\ StorageKey(week) \in DOMAIN week_files

\* C6: load_saved_data never raises; it loads the files that exist and
\* returns true exactly when the mapping file and the file of every label
\* listed in the metadata were found.
C6_LoadSavedDataTolerant ==
    /\ ~LoadSaved.raised
    /\ \A i \in 1..Len(metadata.weeks) :
          ArtifactFound(metadata.weeks[i]) =>
             /\ DictHas(LoadSaved.hist, metadata.weeks[i])
             /\ DictGet(LoadSaved.hist, metadata.weeks[i])
                   = week_files[StorageKey(metadata.weeks[i])]
    /\ LoadSaved.success <=>
          /\ ~IsNone(mapping_file)
          /\ \A i \in 1..Len(metadata.weeks) : ArtifactFound(metadata.weeks[i])

-----------------------------------------------------------------------------
(* Properties of the aggregator *)

\* The campaigns the mapping lists
MappedNames ==
    {Get(mapping_data)[i].msg : i \in 1..Len(Get(mapping_data))}

\* The Sent total over the groups of an aggregate
RECURSIVE TotalSent(_, _)
TotalSent(perf, groups) ==
    IF groups = {} THEN 0
    ELSE LET g == CHOOSE x \in groups : TRUE
         IN perf[g].Sent + TotalSent(perf, groups \ {g})

\* C7: the per-automation aggregates cover every row: when the combined
\* table has a row whose campaign the mapping does not list, both outputs
\* have a null automation group, and with min_emails = 0 the Sent totals
\* over the groups of either output equal the Sent total of the combined
\* table.
C7_UnmappedRowsKept ==
    ~AutomationPerformanceRaises =>
       LET frame == Get(CachedFrame)
           perf == AutomationPerformance(0)
           weekly == WeeklyAutomationPerformance
       IN /\ (\E i \in 1..Len(frame) : frame[i].msg \notin MappedNames)
                => /\ NullGroup \in DOMAIN perf
                   /\ \E k \in DOMAIN weekly : k[1] = NullGroup
          /\ TotalSent(perf, DOMAIN perf) = SumCol(frame, "Sent")
          /\ TotalSent(weekly, DOMAIN weekly) = SumCol(frame, "Sent")

\* C8, for one input table: every row is in the output; an output row is
\* an input row with the automation of a mapping entry of its campaign, or
\* with the null automation when the mapping has no such entry.
LeftJoinSemantics(df) ==
    ~MergeWithMappingRaises(df) =>
       LET input == IF IsNone(df) THEN Get(current_week_data) ELSE Get(df)
           output == MergeWithMapping(df)
           mapping == Get(mapping_data)
       IN /\ \A i \in 1..Len(input) :
                \E j \in 1..Len(output) : output[j].row = input[i]
          /\ \A j \in 1..Len(output) :
                /\ \E i \in 1..Len(input) : input[i] = output[j].row
                /\ IF output[j].row.msg \in MappedNames
                   THEN \E e \in 1..Len(mapping) :
                           /\ mapping[e].msg = output[j].row.msg
                           /\ mapping[e].Automacao = output[j].Automacao
                   ELSE output[j].Automacao = NullGroup

\* C8: merge_with_mapping has left-join semantics, for the current week
\* (no argument) and for the combined table passed as argument.
C8_LeftJoin ==
    \A df \in {PyNone, all_weeks_data} : LeftJoinSemantics(df)

\* C8: a mapping is loaded and the current week has a campaign it lists
\* (twice) and one it does not list.
C8_MappedAndUnmapped ==
    /\ ~MergeWithMappingRaises(PyNone)
    /\ mapping_data = Some(MappingDup)
    /\ \E i \in 1..Len(Get(current_week_data)) :
          Get(current_week_data)[i].msg \in MappedNames
    /\ \E i \in 1..Len(Get(current_week_data)) :
          Get(current_week_data)[i].msg \notin MappedNames

\* Two floats are the same number.
FloatEq(x, y) ==
    /\ x.k = y.k
    /\ x.k = "num" => x.n * y.d = y.n * x.d

\* The metrics of a group are the sums over the given rows, and each rate
\* with a nonzero summed denominator is the ratio of the two sums.
IsRatio(rate, numerator, denominator) ==
    denominator # 0 => FloatEq(rate, Num(numerator, denominator))

SumsAndRatios(m, rows) ==
    /\ m.Sent = SumCol(rows, "Sent")
    /\ m.Delivered = SumCol(rows, "Delivered")
    /\ m.Opened = SumCol(rows, "Opened")
    /\ m.Clicked = SumCol(rows, "Clicked")
    /\ m.Bounced = SumCol(rows, "Bounced")
    /\ m.Unsubscribed = SumCol(rows, "Unsubscribed")
    /\ IsRatio(m.DeliveryRate, SumCol(rows, "Delivered"), SumCol(rows, "Sent"))
    /\ IsRatio(m.OpenRate, SumCol(rows, "Opened"), SumCol(rows, "Delivered"))
    /\ IsRatio(m.ClickRate, SumCol(rows, "Clicked"), SumCol(rows, "Delivered"))
    /\ IsRatio(m.CTOR, SumCol(rows, "Clicked"), SumCol(rows, "Opened"))
    /\ IsRatio(m.BounceRate, SumCol(rows, "Bounced"), SumCol(rows, "Sent"))
    /\ IsRatio(m.UnsubscribeRate, SumCol(rows, "Unsubscribed"), SumCol(rows, "Delivered"))

\* The week summary of a stored week is the sums over its rows and their ratios.
SummaryIsSumsAndRatios(week) ==
    LET summary == WeekSummary(week)
        df == DictGet(historical_data, week)
    IN /\ summary.total_sent = SumCol(df, "Sent")
       /\ summary.total_delivered = SumCol(df, "Delivered")
       /\ summary.total_opened = SumCol(df, "Opened")
       /\ summary.total_clicked = SumCol(df, "Clicked")
       /\ IsRatio(summary.delivery_rate, SumCol(df, "Delivered"), SumCol(df, "Sent"))
       /\ IsRatio(summary.open_rate, SumCol(df, "Opened"), SumCol(df, "Delivered"))
       /\ IsRatio(summary.click_rate, SumCol(df, "Clicked"), SumCol(df, "Delivered"))
       /\ IsRatio(summary.ctor, SumCol(df, "Clicked"), SumCol(df, "Opened"))
       /\ IsRatio(summary.bounce_rate, SumCol(df, "Bounced"), SumCol(df, "Sent"))
       /\ IsRatio(summary.unsubscribe_rate, SumCol(df, "Unsubscribed"),
                  SumCol(df, "Delivered"))

\* The weeks get_week_summary can be asked for by label
SummarizedWeeks ==
    {historical_data[w].k : w \in 1..Len(historical_data)} \ {NoneLabel}

\* C9: at every granularity (week summary, per automation, per automation
\* and week, per subject) each volume counter of a group is the sum over
\* the group's rows across all stored weeks, and each rate is the ratio of
\* the summed numerator to the summed denominator.
C9_RatioOfSums ==
    LET stored == CombinedFrame(historical_data)
    IN /\ \A week \in SummarizedWeeks :
             ~WeekSummaryRaises(week) => SummaryIsSumsAndRatios(week)
       /\ ~AutomationPerformanceRaises =>
             LET merged == LeftMerge(stored, Get(mapping_data))
                 perf == AutomationPerformance(0)
                 weekly == WeeklyAutomationPerformance
             IN /\ \A g \in AutomationGroups(merged) :
                      /\ g \in DOMAIN perf
                      /\ SumsAndRatios(perf[g], RowsOfGroup(merged, g))
                /\ \A k \in WeeklyGroups(merged) :
                      /\ k \in DOMAIN weekly
                      /\ SumsAndRatios(weekly[k], RowsOfWeeklyGroup(merged, k))
       /\ ~SubjectPerformanceRaises =>
             LET subjects == SubjectPerformance(0)
             IN \A i \in 1..Len(stored) :
                   /\ stored[i].subj \in DOMAIN subjects
                   /\ SumsAndRatios(subjects[stored[i].subj].m,
                                    RowsOfSubject(stored, stored[i].subj))

\* A rate whose summed denominator is 0 is exactly 0.
ZeroWithoutDenominator(rate, denominator) == denominator = 0 => rate = Zero

RatesGuarded(m) ==
    /\ ZeroWithoutDenominator(m.DeliveryRate, m.Sent)
    /\ ZeroWithoutDenominator(m.OpenRate, m.Delivered)
    /\ ZeroWithoutDenominator(m.ClickRate, m.Delivered)
    /\ ZeroWithoutDenominator(m.CTOR, m.Opened)
    /\ ZeroWithoutDenominator(m.BounceRate, m.Sent)
    /\ ZeroWithoutDenominator(m.UnsubscribeRate, m.Delivered)

SummaryRatesGuarded(summary) ==
    /\ ZeroWithoutDenominator(summary.delivery_rate, summary.total_sent)
    /\ ZeroWithoutDenominator(summary.open_rate, summary.total_delivered)
    /\ ZeroWithoutDenominator(summary.click_rate, summary.total_delivered)
    /\ ZeroWithoutDenominator(summary.ctor, summary.total_opened)
    /\ ZeroWithoutDenominator(summary.bounce_rate, summary.total_sent)
    /\ ZeroWithoutDenominator(summary.unsubscribe_rate, summary.total_delivered)

\* C10: in every aggregated output (week summary, per automation, per
\* automation and week, per subject) a rate whose summed denominator is 0
\* is reported as exactly 0, never as NaN or infinity.
C10_ZeroDenominator ==
    /\ \A week \in SummarizedWeeks :
          ~WeekSummaryRaises(week) => SummaryRatesGuarded(WeekSummary(week))
    /\ ~AutomationPerformanceRaises =>
          /\ \A g \in DOMAIN AutomationPerformance(0) :
                RatesGuarded(AutomationPerformance(0)[g])
          /\ \A k \in DOMAIN WeeklyAutomationPerformance :
                RatesGuarded(WeeklyAutomationPerformance[k])
    /\ ~SubjectPerformanceRaises =>
          \A subject \in DOMAIN SubjectPerformance(0) :
             RatesGuarded(SubjectPerformance(0)[subject].m)

\* C11: the minimum-volume filter is applied after the summation over all
\* stored weeks: an automation (a subject) is in the output of
\* get_automation_performance(min) (analyze_subject_performance(min))
\* exactly when its Sent total over the rows of all stored weeks reaches
\* min, and the Sent of a retained group is that total.
C11_FilterAfterSummation ==
    LET stored == CombinedFrame(historical_data)
    IN \A min_emails \in MinEmailsArgs :
          /\ ~AutomationPerformanceRaises =>
                LET merged == LeftMerge(stored, Get(mapping_data))
                    perf == AutomationPerformance(min_emails)
                IN /\ DOMAIN perf \subseteq AutomationGroups(merged)
                   /\ \A g \in AutomationGroups(merged) :
                         LET total == SumCol(RowsOfGroup(merged, g), "Sent")
                         IN /\ (g \in DOMAIN perf) <=> (total >= min_emails)
                            /\ g \in DOMAIN perf => perf[g].Sent = total
          /\ ~SubjectPerformanceRaises =>
                LET subjects == SubjectPerformance(min_emails)
                IN /\ DOMAIN subjects \subseteq {stored[i].subj : i \in 1..Len(stored)}
                   /\ \A i \in 1..Len(stored) :
                         LET total == SumCol(RowsOfSubject(stored, stored[i].subj), "Sent")
                         IN /\ (stored[i].subj \in DOMAIN subjects) <=> (total >= min_emails)
                            /\ stored[i].subj \in DOMAIN subjects
                                  => subjects[stored[i].subj].m.Sent = total


-----------------------------------------------------------------------------
(* Properties of the trend *)

\* The place of a label in the week list (0: not listed): the order in which
\* the labels were ingested.
WeekPosition(week_label) ==
    LET hits == {i \in 1..Len(metadata.weeks) : metadata.weeks[i] = week_label}
    IN IF hits = {} THEN 0 ELSE CHOOSE i \in hits : \A j \in hits : i <= j

TrendRates == {"OpenRate", "ClickRate", "CTOR"}

\* The change a row of the trend reports for a rate
ReportedChange(row, rate) ==
    IF rate = "OpenRate" THEN row.OpenRateChange
    ELSE IF rate = "ClickRate" THEN row.ClickRateChange
    ELSE row.CTORChange

\* Row j of the rows of one automation is the week ingested immediately
\* before the week of row i.
IngestedJustBefore(rows, j, i) ==
    /\ WeekPosition(rows[j].Semana) < WeekPosition(rows[i].Semana)
    /\ \A k \in DOMAIN rows :
          ~ /\ WeekPosition(rows[j].Semana) < WeekPosition(rows[k].Semana)
            /\ WeekPosition(rows[k].Semana) < WeekPosition(rows[i].Semana)

\* C12: in get_week_over_week_changes the weeks of each automation are in
\* the order in which their labels were ingested (their order in the week
\* list), not in the lexicographic order of the label text.
C12_IngestionOrder ==
    ~WeekOverWeekChangesRaises =>
        \A pad \in BOOLEAN :
           LET changes == WeekOverWeekChanges(pad)
           IN \A g \in DOMAIN changes :
                 \A i, j \in DOMAIN changes[g] :
                    i < j => /\ WeekPosition(changes[g][i].Semana) # 0
                             /\ WeekPosition(changes[g][i].Semana)
                                   < WeekPosition(changes[g][j].Semana)

\* C13: a week whose preceding week of the same automation has rate 0 gets a
\* null change for that rate, never an infinite one. The preceding week is
\* taken to be the row before it in the output.
C13_ZeroPreviousIsNull ==
    ~WeekOverWeekChangesRaises =>
        \A pad \in BOOLEAN :
           LET changes == WeekOverWeekChanges(pad)
           IN \A g \in DOMAIN changes :
                 \A i \in DOMAIN changes[g] : \A rate \in TrendRates :
                    (i > 1 /\ FloatEq(changes[g][i - 1].m[rate], Zero))
                       => ReportedChange(changes[g][i], rate) = NaNFloat

\* C14: the first week of every automation (the first one ingested) has a
\* null change of the three rates, and no change is computed against a row
\* of another automation: the first row of each automation in the output,
\* whose predecessor in the frame belongs to another automation, has null
\* changes too.
C14_FirstWeekIsNull ==
    ~WeekOverWeekChangesRaises =>
        \A pad \in BOOLEAN :
           LET changes == WeekOverWeekChanges(pad)
           IN \A g \in DOMAIN changes :
                 \A i \in DOMAIN changes[g] : \A rate \in TrendRates :
                    \/ i = 1
                    \/ \A j \in DOMAIN changes[g] :
                          WeekPosition(changes[g][i].Semana)
                             <= WeekPosition(changes[g][j].Semana)
                    => ReportedChange(changes[g][i], rate) = NaNFloat

\* (current - previous) / previous * 100 on floats, previous a nonzero number
ChangeFrom(previous, current) ==
    IF current.k = "num"
    THEN Num(100 * (current.n * previous.d - previous.n * current.d),
             current.d * previous.n)
    ELSE current

\* C15: for every automation and every week of it that is not its first,
\* each reported change is (current - previous) / previous * 100, previous
\* being the nonzero rate of the week of the same automation ingested
\* immediately before.
C15_ChangeFormula ==
    ~WeekOverWeekChangesRaises =>
        \A pad \in BOOLEAN :
           LET changes == WeekOverWeekChanges(pad)
           IN \A g \in DOMAIN changes :
                 \A i, j \in DOMAIN changes[g] : \A rate \in TrendRates :
                    LET previous == changes[g][j].m[rate]
                    IN (/\ IngestedJustBefore(changes[g], j, i)
                        /\ previous.k = "num"
                        /\ previous.n # 0)
                       => FloatEq(ReportedChange(changes[g][i], rate),
                                  ChangeFrom(previous, changes[g][i].m[rate]))


-----------------------------------------------------------------------------
(* Properties of the week labels *)

\* Every row of the frame carries the tag week_label.
TaggedWith(df, week_label) == \A i \in 1..Len(df) : df[i].Semana = week_label

\* C16: every key of the historical store, every entry of the week list and
\* every week tag of a stored row is a string label, never None: a week
\* ingested without a label from a file whose name does not follow the sent_
\* convention is stored under the label 'Semana <n>, <year>'.
C16_LabelsNeverNull ==
    /\ \A i \in 1..Len(historical_data) :
          /\ historical_data[i].k # NoneLabel
          /\ \A j \in 1..Len(historical_data[i].v) :
                historical_data[i].v[j].Semana # NoneLabel
    /\ \A i \in 1..Len(metadata.weeks) : metadata.weeks[i] # NoneLabel
    /\ ~IsNone(metadata_file) =>
          \A i \in 1..Len(Get(metadata_file).weeks) :
             Get(metadata_file).weeks[i] # NoneLabel
    /\ ~IsNone(current_week_data) =>
          \A j \in 1..Len(Get(current_week_data)) :
             Get(current_week_data)[j].Semana # NoneLabel

\* The label of the file name sent_2025-01-012025-01-07.csv
SentDateLabel ==
    <<"2", "0", "2", "5", "-", "0", "1", "-", "0", "1", " ", "a", " ",
      "2", "0", "2", "5", "-", "0", "1", "-", "0", "7">>

\* After the call c the week is stored under week_label: the key holds the
\* table of the file, every row is tagged with it, and the label is listed.
StoredUnder(c, week_label) ==
    /\ DictHas(historical_data', week_label)
    /\ Len(DictGet(historical_data', week_label)) = Len(c.raw)
    /\ TaggedWith(DictGet(historical_data', week_label), week_label)
    /\ TaggedWith(Get(current_week_data'), week_label)
    /\ InList(week_label, metadata'.weeks)

ResolvesByPriority(c) ==
    IngestReturns(c) =>
        /\ c.week_label # NoneLabel => StoredUnder(c, c.week_label)
        /\ (c.week_label = NoneLabel /\ c.filename = SentFileName)
              => StoredUnder(c, SentDateLabel)

\* C17: a call of load_weekly_data with an explicit label stores the week
\* under that label unchanged, whatever the file name; a call without a
\* label on a file named sent_<date1><date2>.csv stores it under
\* '<date1> a <date2>'.
C17_LabelPriority == [][\A c \in ReturningCalls : ResolvesByPriority(c)]_vars

\* Both rules have acted: a week is stored under the label of the file name
\* and another under an explicit label.
C17_BothRulesUsed ==
    /\ DictHas(historical_data, SentDateLabel)
    /\ TaggedWith(DictGet(historical_data, SentDateLabel), SentDateLabel)
    /\ DictHas(historical_data, LabelSpace)
    /\ TaggedWith(DictGet(historical_data, LabelSpace), LabelSpace)


-----------------------------------------------------------------------------
(* Properties of the coercion *)

\* Whether a cell text of a percentage column is a rate in either form
IsRateText(text) ==
    \/ CanParseFloat(text)
    \/ text # <<>> /\ text[Len(text)] = "%" /\ CanParseFloat(StripPercent(text))

MissingRate == FloatCell(NaNFloat)

\* The table stored for the file raw keeps every row, and each cell of raw
\* that is unparseable is missing in it.
CoercedToMissing(raw, df) ==
    /\ Len(df) = Len(raw)
    /\ \A i \in 1..Len(raw) :
          /\ \A c \in PercentColumns :
                ~IsRateText(raw[i].pct[c]) => df[i].pct[c] = MissingRate
          /\ \A c \in NumericColumns :
                ~IsDigits(raw[i].num[c]) => df[i].num[c] = MissingNum
          /\ ToDatetime(raw[i].created) = NaT => df[i].created = NaT

\* C18: load_weekly_data never raises because of an unparseable cell: for
\* every content of the cells of a percentage, numeric or date column, the
\* call stores the week with every row of the file, the unparseable cells as
\* missing values.
C18_UnparseableIsMissing ==
    [][\A raw \in CellFiles :
          LoadWeeklyData(raw, TmpFileName, LabelSpace) =>
             /\ DictHas(historical_data', LabelSpace)
             /\ CoercedToMissing(raw, DictGet(historical_data', LabelSpace))]_vars

\* Every rate of the table that is present is a float in [0,1].
RatesNormalized(df) ==
    \A i \in 1..Len(df) : \A c \in PercentColumns :
       LET v == df[i].pct[c]
       IN /\ v.t = "float"
          /\ v.f.k # "nan" => (v.f.k = "num" /\ 0 <= v.f.n /\ v.f.n <= v.f.d)

\* C19: after the ingestion of a file whose rate cells hold rates, each as a
\* string ending in '%' or as a plain fraction in any mix, every rate of the
\* stored table is a float in [0,1], none is left as a string.
C19_RatesNormalized ==
    [][\A raw \in RateFiles :
          LoadWeeklyData(raw, TmpFileName, LabelSpace) =>
             /\ DictHas(historical_data', LabelSpace)
             /\ RatesNormalized(DictGet(historical_data', LabelSpace))
             /\ RatesNormalized(week_files'[StorageKey(LabelSpace)])]_vars


-----------------------------------------------------------------------------
(* Properties of the mapping *)

\* A call of load_automation_mapping(raw) leaves raw, and nothing else, as
\* the mapping in memory and in the pickle, sets the timestamp and writes
\* the metadata, and keeps the weekly tables and the week list.
ReplacesMapping(raw) ==
    LoadAutomationMapping(raw) =>
        /\ mapping_data' = Some(raw)
        /\ mapping_file' = Some(raw)
        /\ ~IsNone(metadata'.automation_map_updated)
        /\ metadata_file' = Some(metadata')
        /\ metadata'.weeks = metadata.weeks
        /\ UNCHANGED <<historical_data, week_files>>

\* A new processor holds no mapping and finds the pickle as it was left;
\* load_saved_data then reads exactly the pickle.
ReloadsMapping ==
    /\ Restart => (IsNone(mapping_data') /\ mapping_file' = mapping_file)
    /\ (LoadSavedData /\ ~IsNone(mapping_file)) =>
          (mapping_data' = mapping_file /\ mapping_file' = mapping_file)

\* C20: loading a mapping replaces the previous one entirely: after
\* load_automation_mapping(M2) the mapping in memory and the persisted one
\* are exactly M2, also for a processor that restarts and calls
\* load_saved_data; the timestamp of the mapping is set and persisted; the
\* stored weekly tables and the week list are unchanged.
C20_MappingReplaced ==
    [][(\A raw \in MappingFiles : ReplacesMapping(raw)) /\ ReloadsMapping]_vars

\* A mapping was loaded over a different one while a week was stored: the
\* second one is the mapping in memory and in the pickle, and the timestamp
\* is in the metadata file.
C20_ReplacedWithWeekStored ==
    /\ mapping_replaced
    /\ historical_data # <<>>
    /\ metadata.weeks # <<>>
    /\ mapping_data = mapping_file
    /\ mapping_data \in {Some(raw) : raw \in MappingFiles}
    /\ ~IsNone(Get(metadata_file).automation_map_updated)


-----------------------------------------------------------------------------
(* Properties of the read operations and of the cache *)

\* A step of one of the read operations
ReadCall ==
    \/ CombineAllWeeks
    \/ \E week_label \in WeekLabelArgs : GetWeekSummary(week_label)
    \/ GetAllWeeksSummary
    \/ \E min_emails \in MinEmailsArgs : GetAutomationPerformance(min_emails)
    \/ GetWeeklyAutomationPerformance
    \/ \E min_emails \in MinEmailsArgs : AnalyzeSubjectPerformance(min_emails)
    \/ GetWeekOverWeekChanges

\* C22: a read operation, whether it returns or raises, leaves the stored
\* weekly tables, the mapping, the week list, the timestamps of the metadata
\* and every file of the data directory as they were.
C22_ReadsLeaveStore ==
    [][ReadCall => UNCHANGED <<historical_data, mapping_data, current_week_data,
                               metadata, disk>>]_vars

\* After one ingestion and one mapping load, a third call has filled the
\* cache from the store, which is as the two writes left it.
C22_ReadAfterWrites ==
    /\ calls = 3
    /\ Len(historical_data) = 1
    /\ week_files # <<>>
    /\ ~IsNone(mapping_file)
    /\ ~IsNone(all_weeks_data)
    /\ Get(all_weeks_data) = CombinedFrame(historical_data)
    /\ week_files[StorageKey(historical_data[1].k)] = historical_data[1].v

\* C23: the combined table the aggregations use is the concatenation of the
\* weekly tables currently in the store: the cached all_weeks_data is never
\* stale with respect to historical_data.
C23_CacheNeverStale ==
    ~IsNone(all_weeks_data) =>
        Get(all_weeks_data) = CombinedFrame(historical_data)

\* C24: two different week labels never share a week file: their storage
\* keys differ, the file of each ingested label holds the table tagged with
\* that label, and so does the table load_saved_data reads for it.
C24_DistinctKeys ==
    /\ \A i, j \in 1..Len(ingested) :
          i # j => StorageKey(ingested[i]) # StorageKey(ingested[j])
    /\ \A i \in 1..Len(ingested) :
          /\ StorageKey(ingested[i]) \in DOMAIN week_files
          /\ TaggedWith(week_files[StorageKey(ingested[i])], ingested[i])
          /\ DictHas(FreshLoad.hist, ingested[i]) =>
                TaggedWith(DictGet(FreshLoad.hist, ingested[i]), ingested[i])


-----------------------------------------------------------------------------
(* Properties of failed calls and of the week list *)

\* Every label the metadata file lists has its week file.
ListedWeeksHaveFiles(file, files) ==
    ~IsNone(file) =>
        \A i \in 1..Len(Get(file).weeks) :
           /\ Get(file).weeks[i] # NoneLabel
           /\ StorageKey(Get(file).weeks[i]) \in DOMAIN files

\* C25: a call of load_weekly_data that raises leaves the store as it was:
\* the historical store, the current week, the week list in memory and in
\* the metadata file, and the week files; the metadata file never lists a
\* label whose week file was not written.
C25_FailedIngestionLeavesStore ==
    [][\A raw \in WeekFiles, filename \in FileNames, week_label \in WeekLabelArgs :
          (/\ LoadWeeklyDataRaises(raw, filename, week_label) # "none"
           /\ LoadWeeklyData(raw, filename, week_label))
          => /\ UNCHANGED <<historical_data, current_week_data, metadata,
                            metadata_file, week_files>>
             /\ ListedWeeksHaveFiles(metadata_file', week_files')]_vars

\* C26: in every state get_all_weeks_summary returns, without raising, one
\* summary per label of get_available_weeks, in the same order: every label
\* of the week list has a table in the historical store.
C26_SummaryPerListedWeek ==
    /\ \A i \in 1..Len(metadata.weeks) :
          DictHas(historical_data, metadata.weeks[i])
    /\ ~AllWeeksSummaryRaises
    /\ Len(AllWeeksSummary) = Len(metadata.weeks)
    /\ \A i \in 1..Len(metadata.weeks) :
          AllWeeksSummary[i].semana = metadata.weeks[i]


-----------------------------------------------------------------------------
(* Properties of the join, the week tags and the denominators *)

\* The total of a column over the groups of an aggregate
RECURSIVE TotalOf(_, _, _)
TotalOf(perf, groups, col) ==
    IF groups = {} THEN 0
    ELSE LET g == CHOOSE x \in groups : TRUE
         IN perf[g][col] + TotalOf(perf, groups \ {g}, col)

\* C28: the join never multiplies volume: merge_with_mapping gives one row
\* per row of the current week and of the combined table, for every mapping
\* loaded, and the per-automation totals of Sent, Delivered, Opened and
\* Clicked do not exceed those of the combined table.
C28_JoinKeepsVolume ==
    ~IsNone(mapping_data) =>
        /\ ~IsNone(current_week_data) =>
              Len(MergeWithMapping(PyNone)) = Len(Get(current_week_data))
        /\ ~AutomationPerformanceRaises =>
              LET frame == Get(CachedFrame)
                  perf == AutomationPerformance(0)
              IN /\ Len(MergeWithMapping(CachedFrame)) = Len(frame)
                 /\ \A col \in {"Sent", "Delivered", "Opened", "Clicked"} :
                       TotalOf(perf, DOMAIN perf, col) <= SumCol(frame, col)

\* C29: every row of the table stored under a label carries that label as
\* its week tag, in every state: after an ingestion, an overwrite or a
\* reload from the data directory.
C29_TagIsKey ==
    \A i \in 1..Len(historical_data) :
       TaggedWith(historical_data[i].v, historical_data[i].k)

\* The rates of one output row over its own summed counters
DenominatorsOf(m) ==
    /\ IsRatio(m.DeliveryRate, m.Delivered, m.Sent)
    /\ IsRatio(m.BounceRate, m.Bounced, m.Sent)
    /\ IsRatio(m.OpenRate, m.Opened, m.Delivered)
    /\ IsRatio(m.ClickRate, m.Clicked, m.Delivered)
    /\ IsRatio(m.UnsubscribeRate, m.Unsubscribed, m.Delivered)
    /\ IsRatio(m.CTOR, m.Clicked, m.Opened)

SummaryDenominators(summary) ==
    /\ IsRatio(summary.delivery_rate, summary.total_delivered, summary.total_sent)
    /\ IsRatio(summary.bounce_rate, summary.total_bounced, summary.total_sent)
    /\ IsRatio(summary.open_rate, summary.total_opened, summary.total_delivered)
    /\ IsRatio(summary.click_rate, summary.total_clicked, summary.total_delivered)
    /\ IsRatio(summary.unsubscribe_rate, summary.total_unsubscribed,
               summary.total_delivered)
    /\ IsRatio(summary.ctor, summary.total_clicked, summary.total_opened)

\* C30: at every granularity the delivery rate and the bounce rate divide by
\* the summed Sent, the open rate, the click rate and the unsubscribe rate
\* by the summed Delivered, and CTOR divides the summed Clicked by the summed
\* Opened: in the week summary, per automation, per automation and week, and
\* per subject.
C30_DenominatorPerMetric ==
    /\ \A week \in SummarizedWeeks :
          ~WeekSummaryRaises(week) => SummaryDenominators(WeekSummary(week))
    /\ ~AutomationPerformanceRaises =>
          /\ \A g \in DOMAIN AutomationPerformance(0) :
                DenominatorsOf(AutomationPerformance(0)[g])
          /\ \A k \in DOMAIN WeeklyAutomationPerformance :
                DenominatorsOf(WeeklyAutomationPerformance[k])
    /\ ~SubjectPerformanceRaises =>
          \A subject \in DOMAIN SubjectPerformance(0) :
             DenominatorsOf(SubjectPerformance(0)[subject].m)

\* The four outputs exist and hold a group whose Sent, Delivered and Opened
\* totals are positive and differ, so that the denominators tell apart.
C30_AllGranularities ==
    /\ ~AutomationPerformanceRaises
    /\ \E week \in SummarizedWeeks :
          /\ ~WeekSummaryRaises(week)
          /\ WeekSummary(week).total_sent > WeekSummary(week).total_delivered
          /\ WeekSummary(week).total_opened > 0
    /\ \E g \in DOMAIN AutomationPerformance(0) :
          LET m == AutomationPerformance(0)[g]
          IN m.Sent > m.Delivered /\ m.Delivered > m.Opened /\ m.Opened > 0
    /\ \E k \in DOMAIN WeeklyAutomationPerformance :
          LET m == WeeklyAutomationPerformance[k]
          IN m.Sent > m.Delivered /\ m.Delivered > m.Opened /\ m.Opened > 0
    /\ \E subject \in DOMAIN SubjectPerformance(0) :
          LET m == SubjectPerformance(0)[subject].m
          IN m.Sent > m.Delivered /\ m.Delivered > m.Opened /\ m.Opened > 0


-----------------------------------------------------------------------------
(* Properties of the processors on a directory *)

\* C21: merge_with_mapping, get_automation_performance,
\* get_weekly_automation_performance and get_week_over_week_changes raise in
\* every state where the processor holds no week or no mapping, and return
\* in every state where it holds a week and a mapping.
C21_AbortsWithoutData ==
    /\ (historical_data = <<>> \/ IsNone(mapping_data)) =>
          /\ MergeWithMappingRaises(PyNone)
          /\ AutomationPerformanceRaises
          /\ WeekOverWeekChangesRaises
    /\ (historical_data # <<>> /\ ~IsNone(mapping_data)) =>
          /\ ~MergeWithMappingRaises(PyNone)
          /\ ~AutomationPerformanceRaises
          /\ ~WeekOverWeekChangesRaises

\* C27: writers that take turns lose no week: every label ingested, by
\* whichever instance, is listed in the metadata file, and a new processor
\* that calls load_saved_data holds its table.
C27_NoWeekLost ==
    \A i \in 1..Len(ingested) :
       /\ ~IsNone(metadata_file)
       /\ InList(ingested[i], Get(metadata_file).weeks)
       /\ DictHas(FreshLoad.hist, ingested[i])

=============================================================================
